---- MODULE Spec2Model ----
(***************************************************************************)
(* CallMind: the ChromaDB relay (src/chromadb_server), the transcription    *)
(* store and search of the Twilio service (src/twilio_server,               *)
(* src/chromadb_utils) and the webhooks of the telephony services           *)
(* (src/twilio_server, src/twilio, src/mcp_server/app.py) as a state        *)
(* machine.                                                                 *)
(*                                                                          *)
(* The vector store (the chromadb client library) is the environment: its   *)
(* calls are modelled at the places the services make them.  A Python value *)
(* that is None or empty is falsy in every test the code makes on it, so an *)
(* omitted string is "" and an omitted mapping is the empty mapping.        *)
(*                                                                          *)
(* Each datetime.now() reads a later time than the one before: two readings *)
(* are at least a call to the store apart.                                  *)
(*                                                                          *)
(* Next is every request of the relay with every failure of the store.      *)
(* SpecRelay is the relay with the store answering every call,              *)
(* SpecCollections the part of it that makes and deletes collections,       *)
(* SpecFailing the relay on one collection with a store that may fail and   *)
(* callers that send anything the request models accept.  SpecFilter is the *)
(* queries of both services with the requests that fill their collections,  *)
(* SpecWebhooks the webhooks of the telephony services.  SpecIds is the      *)
(* requests of the relay that name or return documents.  SpecRacing is two  *)
(* calls of the relay to one collection taken store call by store call, so  *)
(* that the calls of one fall between the calls of the other; SpecListing   *)
(* is list_collections taken so while collections are made and deleted.     *)
(* SpecServing is the services from the loading of their modules, with the  *)
(* tools of the MCP server (src/mcp_server/callmind_mcp.py).  Every         *)
(* specification starts from the empty store.                               *)
(***************************************************************************)
EXTENDS Integers, Sequences, FiniteSets, TLC

\* ------------------------------------------------------------------ bounds
MaxClock == 2       \* readings of datetime.now() by requests served one at a time
MaxK == 2           \* largest n_results a query asks for
MaxTasks == 2       \* background tasks waiting to run

\* ------------------------------------------------------------------ inputs
Collections == {"c1", "c2"}
CallerIds == {"a"}
Queries == {"A"}
\* where a store call of the request fails: nowhere, in get_or_create_collection,
\* or in the call on the collection
Faults == {"none", "open", "call"}

\* str(uuid.uuid4()): the n-th identifier drawn
UuidNames == <<"u1", "u2", "u3", "u4", "u5", "u6">>
\* datetime.isoformat(): the text of the n-th clock reading
IsoNames == <<"t1", "t2", "t3", "t4", "t5", "t6">>

EmptyMap == [k \in {} |-> ""]

Map1(k, v) == [x \in {k} |-> v]

Map2(k1, v1, k2, v2) == [x \in {k1, k2} |-> IF x = k1 THEN v1 ELSE v2]

\* dict[k] = v
Put(m, k, v) == [x \in DOMAIN m \cup {k} |-> IF x = k THEN v ELSE m[x]]

\* request bodies of POST .../documents, without the id
AddBodies ==
    { [content |-> "A", metadata |-> EmptyMap],
      [content |-> "B",
       metadata |-> [k \in {"topic", "created_at", "updated_at"} |->
                       IF k = "topic" THEN "x" ELSE "cal"]] }

\* bodies the models accept that the relay's contract calls invalid
EmptyBodies == { [content |-> "", metadata |-> EmptyMap] }

\* request bodies of PUT .../documents/{id}
UpdateBodies ==
    { [content |-> "", metadata |-> Map1("topic", "y")],
      [content |-> "A", metadata |-> EmptyMap],
      [content |-> "", metadata |-> EmptyMap] }

\* the where clause of a query; the empty mapping is where=None
Wheres ==
    { EmptyMap, Map1("topic", "x"), Map2("topic", "x", "created_at", "t1") }

isoformat(n) == IsoNames[n]

Min(a, b) == IF a < b THEN a ELSE b

\* the embedding distance of a stored text from a query text (opaque to the relay)
Distance(q, content) == IF content = q THEN 0 ELSE IF content = "" THEN 2 ELSE 1

VARIABLES
    store,      \* the persistent client: collection name -> (document id -> document)
    clock,      \* readings of datetime.now() so far
    uuids,      \* identifiers drawn from uuid.uuid4() so far
    ledger,     \* history: per collection and id, successful adds since the id was last deleted
    callmind,   \* the cloud collection "callmind" of the Twilio service: id -> document
    tasks,      \* the background tasks of the Infobip service that have not run yet
    api,        \* the calls made to the Infobip API so far
    inflight,   \* the relay calls of concurrent clients, each between two store calls
    services,   \* the telephony services started, each with the environment it read
    mcp_client, \* ChromaCloudMCPServer.client: connected or None
    resp        \* the last request and its response

vars ==
    <<store, clock, uuids, ledger, callmind, tasks, api, inflight, services, mcp_client,
      resp>>

\* ------------------------------------------------------------ the store
\* a collection made anew, and empty, by every call that opens it
ClientCreateAnew(st, c) ==
    [x \in DOMAIN st \cup {c} |-> IF x = c THEN EmptyMap ELSE st[x]]

\* client.get_or_create_collection(name)
ClientGetOrCreate(st, c) ==
    IF c \in DOMAIN st THEN st
    ELSE [x \in DOMAIN st \cup {c} |-> IF x = c THEN EmptyMap ELSE st[x]]

\* an add that answers and stores nothing
CollAddIgnored(coll, id, content, metadata) == coll

\* collection.add(documents, metadatas, ids): a record whose id is already
\* in the collection is ignored, without an error
CollAdd(coll, id, content, metadata) ==
    IF id \in DOMAIN coll THEN coll
    ELSE [x \in DOMAIN coll \cup {id} |->
            IF x = id THEN [content |-> content, metadata |-> metadata] ELSE coll[x]]

\* collection.get(ids=[id]): the parallel lists of the result
CollGet(coll, id) ==
    IF id \in DOMAIN coll
    THEN [ids |-> <<id>>, documents |-> <<coll[id].content>>,
          metadatas |-> <<coll[id].metadata>>]
    ELSE [ids |-> <<>>, documents |-> <<>>, metadatas |-> <<>>]

\* collection.update(ids, documents, metadatas): the document is replaced and
\* the metadata keys given are written over the stored ones
CollUpdate(coll, id, content, metadata) ==
    IF id \notin DOMAIN coll THEN coll
    ELSE [coll EXCEPT ![id] =
            [content |-> content,
             metadata |-> [k \in DOMAIN @.metadata \cup DOMAIN metadata |->
                             IF k \in DOMAIN metadata THEN metadata[k] ELSE @.metadata[k]]]]

\* collection.delete(ids=[id]): an id that is not there is no error
CollDelete(coll, id) == [x \in DOMAIN coll \ {id} |-> coll[x]]

\* collection.count()
CollCount(coll) == Cardinality(DOMAIN coll)

\* client.delete_collection(name), for a collection that exists
ClientDeleteCollection(st, c) == [x \in DOMAIN st \ {c} |-> st[x]]

\* a where clause of equalities: every key is there with the value asked for
WhereMatches(where, metadata) ==
    \A k \in DOMAIN where : k \in DOMAIN metadata /\ metadata[k] = where[k]

\* the orders in which the index may hold the ids of a collection
Orders(ids) ==
    {s \in [1..Cardinality(ids) -> ids] : \A i, j \in DOMAIN s : i # j => s[i] # s[j]}

Pos(s, x) == CHOOSE i \in DOMAIN s : s[i] = x

\* one order of the index for each way of breaking the ties of a query: the
\* orders that already run from the nearest document to the farthest
Rankings(coll, q) ==
    {s \in Orders(DOMAIN coll) :
        \A i, j \in DOMAIN s :
           i < j => Distance(q, coll[s[i]].content) <= Distance(q, coll[s[j]].content)}

\* collection.query(query_texts=[q], n_results=n, where=where): the n nearest
\* of the matching documents, nearest first; equal distances in the index's order
CollQuery(coll, q, n, where, order) ==
    LET Hit(id) == WhereMatches(where, coll[id].metadata)
        Nearer(x, y) ==
            \/ Distance(q, coll[x].content) < Distance(q, coll[y].content)
            \/ /\ Distance(q, coll[x].content) = Distance(q, coll[y].content)
               /\ Pos(order, x) < Pos(order, y)
        ranked == SortSeq(SelectSeq(order, Hit), Nearer)
        ids == SubSeq(ranked, 1, Min(n, Len(ranked)))
    IN  [ids |-> <<ids>>,
         documents |-> << [i \in DOMAIN ids |-> coll[ids[i]].content] >>,
         metadatas |-> << [i \in DOMAIN ids |-> coll[ids[i]].metadata] >>,
         distances |-> << [i \in DOMAIN ids |-> Distance(q, coll[ids[i]].content)] >>]

\* -------------------------------------------------------- ChromaDBManager
\* Each method is the state of the store after the call and what the call gives
\* back; raised is an exception leaving the method.
get_or_create_collection(st, c) == ClientGetOrCreate(st, c)

\* a count taken from the list of collections instead of from the collection
list_collections_names(st) == [c \in DOMAIN st |-> Cardinality(DOMAIN st)]

list_collections(st) == [c \in DOMAIN st |-> CollCount(st[c])]

\* a new identifier drawn for every document, whatever the caller sent
doc_id_generated(document, uuid) == uuid

\* add_document, "Generate ID if not provided": document.id or str(uuid.uuid4())
doc_id(document, uuid) == IF document.id # "" THEN document.id ELSE uuid

\* a second collection.add after the first one failed
add_failed_retry(st1, c, id, document, metadata) ==
    [store |-> [st1 EXCEPT ![c] = CollAdd(@, id, document.content, metadata)],
     raised |-> FALSE, id |-> id, attempts |-> 2]

\* add_document, collection.add raises: the exception leaves the method
add_failed(st1, c, id, document, metadata) ==
    [store |-> st1, raised |-> TRUE, id |-> "", attempts |-> 1]

\* attempts: the calls of collection.add the method has made
add_document(st, c, document, now, uuid, fault) ==
    IF fault = "open" THEN [store |-> st, raised |-> TRUE, id |-> "", attempts |-> 0]
    ELSE LET st1 == get_or_create_collection(st, c)
             id == doc_id(document, uuid)
             metadata == Put(document.metadata, "created_at", isoformat(now))
         IN  IF fault = "call" THEN add_failed(st1, c, id, document, metadata)
             ELSE [store |-> [st1 EXCEPT ![c] =
                               CollAdd(@, id, document.content, metadata)],
                   raised |-> FALSE, id |-> id, attempts |-> 1]

\* the responses built from the last result backwards
format_response_reversed(results) ==
    IF results.documents # <<>> /\ results.documents[1] # <<>>
    THEN [i \in DOMAIN results.documents[1] |->
            LET j == Len(results.documents[1]) + 1 - i
            IN  [id |-> results.ids[1][j],
                 content |-> results.documents[1][j],
                 metadata |-> results.metadatas[1][j],
                 distance |-> results.distances[1][j]]]
    ELSE <<>>

\* query_documents, "Format response": one DocumentResponse per result, in order
format_response(results) ==
    IF results.documents # <<>> /\ results.documents[1] # <<>>
    THEN [i \in DOMAIN results.documents[1] |->
            [id |-> results.ids[1][i],
             content |-> results.documents[1][i],
             metadata |-> results.metadatas[1][i],
             distance |-> results.distances[1][i]]]
    ELSE <<>>

\* the store refuses n_results < 1; it refuses a where clause of several keys, or
\* (older releases) reads it as the conjunction of its keys
query_documents(st, c, query, fault, order, implicitAnd) ==
    IF fault = "open" THEN [store |-> st, raised |-> TRUE, documents |-> <<>>]
    ELSE LET st1 == get_or_create_collection(st, c)
             results == CollQuery(st1[c], query.query, query.n_results, query.where, order)
         IN  IF \/ fault = "call"
                \/ query.n_results <= 0
                \/ Cardinality(DOMAIN query.where) > 1 /\ ~implicitAnd
             THEN [store |-> st1, raised |-> TRUE, documents |-> <<>>]
             ELSE [store |-> st1, raised |-> FALSE, documents |-> format_response(results)]

\* an empty result indexed instead of tested: the not-found case raises
get_document_raises(st, c, document_id, fault) ==
    IF fault = "open" THEN [store |-> st, raised |-> TRUE, doc |-> <<>>]
    ELSE LET st1 == get_or_create_collection(st, c)
             results == CollGet(st1[c], document_id)
         IN  IF fault = "call" THEN [store |-> st1, raised |-> FALSE, doc |-> <<>>]
             ELSE IF results.documents # <<>>
                  THEN [store |-> st1, raised |-> FALSE,
                        doc |-> << [id |-> results.ids[1],
                                    content |-> results.documents[1],
                                    metadata |-> results.metadatas[1]] >>]
                  ELSE [store |-> st1, raised |-> TRUE, doc |-> <<>>]

get_document(st, c, document_id, fault) ==
    IF fault = "open" THEN [store |-> st, raised |-> TRUE, doc |-> <<>>]
    ELSE LET st1 == get_or_create_collection(st, c)
             results == CollGet(st1[c], document_id)
         IN  IF fault = "call" THEN [store |-> st1, raised |-> FALSE, doc |-> <<>>]
             ELSE IF results.documents # <<>>
                  THEN [store |-> st1, raised |-> FALSE,
                        doc |-> << [id |-> results.ids[1],
                                    content |-> results.documents[1],
                                    metadata |-> results.metadatas[1]] >>]
                  ELSE [store |-> st1, raised |-> FALSE, doc |-> <<>>]

\* an upsert where the update should give up
update_missing_upsert(st1, c, document_id, update_data, now) ==
    [store |-> [st1 EXCEPT ![c] = CollAdd(@, document_id, update_data.content,
                                          update_data.metadata)],
     raised |-> FALSE, ok |-> TRUE, stamped |-> FALSE]

\* update_document, the id is not in the collection: return False
update_missing(st1, c, document_id, update_data, now) ==
    [store |-> st1, raised |-> FALSE, ok |-> FALSE, stamped |-> FALSE]

\* the content of the request taken as it is, omitted or not
new_content_given(update_data, existing) == update_data.content

\* update_data.content or existing["documents"][0]
new_content(update_data, existing) ==
    IF update_data.content # "" THEN update_data.content ELSE existing.documents[1]

\* the metadata chosen, with no updated_at written into it
new_metadata_unstamped(update_data, existing, now) ==
    IF existing.metadatas # <<>>
    THEN IF update_data.metadata # EmptyMap THEN update_data.metadata
         ELSE existing.metadatas[1]
    ELSE EmptyMap

\* (update_data.metadata or existing["metadatas"][0]) if existing["metadatas"] else {},
\* then new_metadata["updated_at"] = now
new_metadata(update_data, existing, now) ==
    LET chosen == IF existing.metadatas # <<>>
                  THEN IF update_data.metadata # EmptyMap THEN update_data.metadata
                       ELSE existing.metadatas[1]
                  ELSE EmptyMap
    IN  Put(chosen, "updated_at", isoformat(now))

update_document(st, c, document_id, update_data, now, fault) ==
    IF fault = "open" THEN [store |-> st, raised |-> TRUE, ok |-> FALSE, stamped |-> FALSE]
    ELSE LET st1 == get_or_create_collection(st, c)
             existing == CollGet(st1[c], document_id)
         IN  IF fault = "call"
             THEN [store |-> st1, raised |-> FALSE, ok |-> FALSE, stamped |-> FALSE]
             ELSE IF existing.documents = <<>>
             THEN update_missing(st1, c, document_id, update_data, now)
             ELSE [store |-> [st1 EXCEPT ![c] =
                               CollUpdate(@, document_id,
                                          new_content(update_data, existing),
                                          new_metadata(update_data, existing, now))],
                   raised |-> FALSE, ok |-> TRUE, stamped |-> TRUE]

\* the id deleted from every collection instead of the one named
delete_document_everywhere(st, c, document_id, fault) ==
    IF fault = "open" THEN [store |-> st, raised |-> TRUE, ok |-> FALSE]
    ELSE LET st1 == get_or_create_collection(st, c)
         IN  IF fault = "call" THEN [store |-> st1, raised |-> FALSE, ok |-> FALSE]
             ELSE [store |-> [x \in DOMAIN st1 |-> CollDelete(st1[x], document_id)],
                   raised |-> FALSE, ok |-> TRUE]

delete_document(st, c, document_id, fault) ==
    IF fault = "open" THEN [store |-> st, raised |-> TRUE, ok |-> FALSE]
    ELSE LET st1 == get_or_create_collection(st, c)
         IN  IF fault = "call" THEN [store |-> st1, raised |-> FALSE, ok |-> FALSE]
             ELSE [store |-> [st1 EXCEPT ![c] = CollDelete(@, document_id)],
                   raised |-> FALSE, ok |-> TRUE]

\* a collection that is not there deleted without an error, as a document is
delete_collection_silent(st, c, fault) ==
    IF fault = "call"
    THEN [store |-> st, raised |-> FALSE, ok |-> FALSE]
    ELSE [store |-> ClientDeleteCollection(st, c), raised |-> FALSE, ok |-> TRUE]

\* client.delete_collection raises for a name that is not there, as for a failure
delete_collection(st, c, fault) ==
    IF fault = "call" \/ c \notin DOMAIN st
    THEN [store |-> st, raised |-> FALSE, ok |-> FALSE]
    ELSE [store |-> ClientDeleteCollection(st, c), raised |-> FALSE, ok |-> TRUE]

\* --------------------------------------------------------------- requests
NoResp ==
    [op |-> "none", coll |-> "", id |-> "", content |-> "", metadata |-> EmptyMap,
     n |-> 0, from |-> "", to |-> "", fault |-> "none", status |-> 0, rid |-> "",
     before |-> <<>>, existed |-> FALSE, attempts |-> 0, event |-> EmptyMap,
     sent |-> {},
     doc |-> <<>>,
     matches |-> <<>>, listing |-> EmptyMap]

uuid4 == UuidNames[uuids + 1]

\* the clients whose relay calls may overlap
Procs == {"p1", "p2"}

\* a client with no call in progress and none answered
Idle ==
    [pc |-> "idle", op |-> "none", coll |-> "", id |-> "", content |-> "",
     metadata |-> EmptyMap, rid |-> "", new_content |-> "", new_metadata |-> EmptyMap,
     names |-> <<>>, enumerated |-> {}, listing |-> EmptyMap, count0 |-> 0,
     existed |-> FALSE, overlap |-> FALSE, status |-> 0]

\* history: the document a request names, as stored when the request arrives
Stored(c, id) ==
    IF c \in DOMAIN store /\ id \in DOMAIN store[c] THEN <<store[c][id]>> ELSE <<>>

Init ==
    /\ store = EmptyMap
    /\ clock = 0
    /\ uuids = 0
    /\ ledger = [c \in Collections |-> EmptyMap]
    /\ callmind = EmptyMap
    /\ tasks = <<>>
    /\ api = {}
    /\ inflight = [p \in Procs |-> Idle]
    /\ services = EmptyMap
    /\ mcp_client = "None"
    /\ resp = NoResp

\* GET /collections
ListCollections(fault) ==
    /\ resp' = [NoResp EXCEPT !.op = "list", !.fault = fault,
                              !.status = IF fault = "none" THEN 200 ELSE 500,
                              !.listing = IF fault = "none" THEN list_collections(store)
                                          ELSE EmptyMap]
    /\ UNCHANGED <<store, clock, uuids, ledger, callmind, tasks, api,
                   inflight, services, mcp_client>>

\* POST /collections/{collection_name}/documents
AddDocument(c, id, body, fault) ==
    /\ fault # "open" => clock < MaxClock
    /\ LET r == add_document(store, c,
                             [id |-> id, content |-> body.content,
                              metadata |-> body.metadata],
                             clock + 1, uuid4, fault)
       IN  /\ store' = r.store
           /\ clock' = IF fault = "open" THEN clock ELSE clock + 1
           /\ uuids' = IF fault # "open" /\ id = "" THEN uuids + 1 ELSE uuids
           /\ ledger' = IF r.raised THEN ledger
                        ELSE [ledger EXCEPT ![c] =
                                Put(@, r.id, IF r.id \in DOMAIN @ THEN @[r.id] + 1 ELSE 1)]
           /\ UNCHANGED <<callmind, tasks, api, inflight, services, mcp_client>>
           /\ resp' = [NoResp EXCEPT !.op = "add", !.coll = c, !.id = id,
                                     !.content = body.content,
                                     !.metadata = body.metadata, !.fault = fault,
                                     !.before = Stored(c, r.id),
                                     !.existed = (c \in DOMAIN store),
                                     !.attempts = r.attempts,
                                     !.status = IF r.raised THEN 500 ELSE 200,
                                     !.rid = r.id]

\* POST /collections/{collection_name}/query
QueryDocuments(c, q, n, where, fault) ==
    \E implicitAnd \in (IF Cardinality(DOMAIN where) > 1 THEN BOOLEAN ELSE {FALSE}) :
    \E order \in Rankings(IF c \in DOMAIN store THEN store[c] ELSE EmptyMap, q) :
      LET r == query_documents(store, c, [query |-> q, n_results |-> n, where |-> where],
                               fault, order, implicitAnd)
      IN  /\ store' = r.store
          /\ resp' = [NoResp EXCEPT !.op = "query", !.coll = c, !.content = q,
                                    !.metadata = where, !.n = n, !.fault = fault,
                                    !.status = IF r.raised THEN 500 ELSE 200,
                                    !.matches = r.documents]
          /\ UNCHANGED <<clock, uuids, ledger, callmind, tasks, api,
                         inflight, services, mcp_client>>

\* GET /collections/{collection_name}/documents/{document_id}
GetDocument(c, id, fault) ==
    LET r == get_document(store, c, id, fault)
    IN  /\ store' = r.store
        /\ resp' = [NoResp EXCEPT !.op = "get", !.coll = c, !.id = id, !.fault = fault,
                                  !.before = Stored(c, id),
                                  !.status = IF r.raised THEN 500
                                             ELSE IF r.doc = <<>> THEN 404 ELSE 200,
                                  !.doc = r.doc]
        /\ UNCHANGED <<clock, uuids, ledger, callmind, tasks, api,
                       inflight, services, mcp_client>>

\* PUT /collections/{collection_name}/documents/{document_id}
UpdateDocument(c, id, body, fault) ==
    LET r == update_document(store, c, id, body, clock + 1, fault)
    IN  /\ r.stamped => clock < MaxClock
        /\ store' = r.store
        /\ clock' = IF r.stamped THEN clock + 1 ELSE clock
        /\ resp' = [NoResp EXCEPT !.op = "update", !.coll = c, !.id = id,
                                  !.content = body.content, !.metadata = body.metadata,
                                  !.fault = fault, !.before = Stored(c, id),
                                  !.status = IF r.raised THEN 500
                                             ELSE IF r.ok THEN 200 ELSE 404]
        /\ UNCHANGED <<uuids, ledger, callmind, tasks, api,
                       inflight, services, mcp_client>>

\* DELETE /collections/{collection_name}/documents/{document_id}
DeleteDocument(c, id, fault) ==
    LET r == delete_document(store, c, id, fault)
    IN  /\ store' = r.store
        /\ ledger' = IF r.ok THEN [ledger EXCEPT ![c] = [x \in DOMAIN @ \ {id} |-> @[x]]]
                     ELSE ledger
        /\ resp' = [NoResp EXCEPT !.op = "delete", !.coll = c, !.id = id, !.fault = fault,
                                  !.before = Stored(c, id),
                                  !.status = IF r.raised THEN 500
                                             ELSE IF r.ok THEN 200 ELSE 404]
        /\ UNCHANGED <<clock, uuids, callmind, tasks, api,
                       inflight, services, mcp_client>>

\* DELETE /collections/{collection_name}
DeleteCollection(c, fault) ==
    LET r == delete_collection(store, c, fault)
    IN  /\ store' = r.store
        /\ ledger' = IF r.ok THEN [ledger EXCEPT ![c] = EmptyMap] ELSE ledger
        /\ resp' = [NoResp EXCEPT !.op = "drop", !.coll = c, !.fault = fault,
                                  !.existed = (c \in DOMAIN store),
                                  !.status = IF r.ok THEN 200 ELSE 404]
        /\ UNCHANGED <<clock, uuids, callmind, tasks, api,
                       inflight, services, mcp_client>>

\* GET /collections/{collection_name}/count
GetCollectionCount(c, fault) ==
    /\ store' = IF fault = "open" THEN store ELSE get_or_create_collection(store, c)
    /\ resp' = [NoResp EXCEPT !.op = "count", !.coll = c, !.fault = fault,
                              !.status = IF fault = "none" THEN 200 ELSE 500,
                              !.n = IF fault = "none"
                                    THEN CollCount(get_or_create_collection(store, c)[c])
                                    ELSE 0]
    /\ UNCHANGED <<clock, uuids, ledger, callmind, tasks, api,
                   inflight, services, mcp_client>>

\* ------------------------------------------- twilio_server, chromadb_utils
Numbers == {"+1", "+2"}
Statuses == {"completed", "Completed", "failed"}
Texts == {"hello", " "}

\* str.lower() and str.strip() on the texts above
Lower(s) == IF s = "Completed" THEN "completed" ELSE s

Strip(s) == IF s = " " THEN "" ELSE s

\* chromadb_utils.utils.add_document
utils_add_document(coll, document, metadata, uuid) ==
    LET document_id == uuid
    IN  CollAdd(coll, document_id, document, metadata)

\* chromadb_utils.utils.retrieve_document: the store refuses a where clause of
\* several keys, or (older releases) reads it as the conjunction of its keys
retrieve_document(coll, query, n_results, where, order, implicitAnd) ==
    IF n_results <= 0 \/ (Cardinality(DOMAIN where) > 1 /\ ~implicitAnd)
    THEN [raised |-> TRUE, results |-> CollQuery(EmptyMap, query, 0, EmptyMap, <<>>)]
    ELSE [raised |-> FALSE, results |-> CollQuery(coll, query, n_results, where, order)]

\* a transcription stored whatever its status
transcription_stored_any(TranscriptionStatus, TranscriptionText) ==
    Strip(TranscriptionText) # ""

\* handle_transcription, "Store in ChromaDB if transcription was successful"
transcription_stored(TranscriptionStatus, TranscriptionText) ==
    Lower(TranscriptionStatus) = "completed" /\ Strip(TranscriptionText) # ""

\* POST /webhooks/transcription of twilio_server.  fault = "call": add_document
\* raises (the store fails, or refuses the metadata), which the handler logs.
\* attempts: the calls of add_document the handler has made
HandleTranscription(CallSid, TranscriptionText, TranscriptionStatus, RecordingSid, From, To, fault) ==
    LET stored == transcription_stored(TranscriptionStatus, TranscriptionText)
        call_metadata ==
            [k \in {"call_sid", "recording_sid", "from_number", "to_number",
                    "transcription_status", "recording_url", "timestamp", "source"} |->
                CASE k = "call_sid" -> CallSid
                  [] k = "recording_sid" -> RecordingSid
                  [] k = "from_number" -> From
                  [] k = "to_number" -> To
                  [] k = "transcription_status" -> TranscriptionStatus
                  [] k = "recording_url" -> "url"
                  [] k = "timestamp" -> isoformat(clock + 1)
                  [] OTHER -> "twilio_transcription"]
    IN  /\ stored => clock < MaxClock
        /\ callmind' = IF stored /\ fault = "none"
                       THEN utils_add_document(callmind, TranscriptionText, call_metadata,
                                               uuid4)
                       ELSE callmind
        /\ clock' = IF stored THEN clock + 1 ELSE clock
        /\ uuids' = IF stored THEN uuids + 1 ELSE uuids
        /\ resp' = [NoResp EXCEPT !.op = "transcription", !.id = CallSid,
                                  !.content = TranscriptionText, !.from = From, !.to = To,
                                  !.event = Map1("TranscriptionStatus", TranscriptionStatus),
                                  !.fault = IF stored THEN fault ELSE "none",
                                  !.attempts = IF stored THEN 1 ELSE 0,
                                  !.status = 200,
                                  !.rid = IF stored /\ fault = "none" THEN uuid4 ELSE ""]
        /\ UNCHANGED <<store, ledger, tasks, api, inflight, services, mcp_client>>

\* POST /webhooks/voice: the TwiML that records the call, or the TwiML that
\* apologises when building it raised
HandleIncomingCall ==
    /\ resp' = [NoResp EXCEPT !.op = "voice", !.status = 200]
    /\ UNCHANGED <<store, clock, uuids, ledger, callmind, tasks, api,
                   inflight, services, mcp_client>>

\* POST /webhooks/recording-complete
HandleRecordingComplete(CallSid, RecordingSid) ==
    /\ resp' = [NoResp EXCEPT !.op = "recording-complete", !.id = CallSid, !.status = 200]
    /\ UNCHANGED <<store, clock, uuids, ledger, callmind, tasks, api,
                   inflight, services, mcp_client>>

\* POST /webhooks/call-status
HandleCallStatus(CallSid, CallStatus) ==
    /\ resp' = [NoResp EXCEPT !.op = "call-status", !.id = CallSid,
                              !.event = Map1("CallStatus", CallStatus), !.status = 200]
    /\ UNCHANGED <<store, clock, uuids, ledger, callmind, tasks, api,
                   inflight, services, mcp_client>>

\* POST /webhooks/transcription of twilio/app.py: the transcription is printed
TwilioAppHandleTranscription(CallSid, TranscriptionText, TranscriptionStatus) ==
    /\ resp' = [NoResp EXCEPT !.op = "twilio-transcription", !.id = CallSid,
                              !.content = TranscriptionText,
                              !.event = Map1("TranscriptionStatus", TranscriptionStatus),
                              !.attempts = 0, !.status = 200]
    /\ UNCHANGED <<store, clock, uuids, ledger, callmind, tasks, api,
                   inflight, services, mcp_client>>

\* the second filter assigned over the first instead of added to it
where_clause_last(from_number, to_number) ==
    IF to_number # "" THEN Map1("to_number", to_number)
    ELSE IF from_number # "" THEN Map1("from_number", from_number)
    ELSE EmptyMap

\* search_transcriptions, "Build where clause for filtering"
where_clause(from_number, to_number) ==
    LET w1 == IF from_number # "" THEN Put(EmptyMap, "from_number", from_number)
              ELSE EmptyMap
    IN  IF to_number # "" THEN Put(w1, "to_number", to_number) ELSE w1

\* GET /transcriptions/search
SearchTranscriptions(query, n_results, from_number, to_number) ==
    \E implicitAnd \in (IF Cardinality(DOMAIN where_clause(from_number, to_number)) > 1
                        THEN BOOLEAN ELSE {FALSE}) :
        \E order \in Rankings(callmind, query) :
          LET r == retrieve_document(callmind, query, n_results,
                                     where_clause(from_number, to_number), order,
                                     implicitAnd)
              results == r.results
              formatted_results ==
                  IF results.documents # <<>> /\ results.documents[1] # <<>>
                  THEN [i \in DOMAIN results.documents[1] |->
                          [transcription |-> results.documents[1][i],
                           metadata |-> results.metadatas[1][i],
                           similarity_score |-> 1 - results.distances[1][i]]]
                  ELSE <<>>
          IN  /\ resp' = [NoResp EXCEPT !.op = "search", !.content = query,
                                        !.n = n_results, !.from = from_number,
                                        !.to = to_number,
                                        !.status = IF r.raised THEN 500 ELSE 200,
                                        !.matches = IF r.raised THEN <<>>
                                                    ELSE formatted_results]
              /\ UNCHANGED <<store, clock, uuids, ledger, callmind, tasks, api,
                             inflight, services, mcp_client>>

\* ------------------------------------------------- mcp_server/app.py (Infobip)
\* A request body: json is what request.json() makes of it, and "" is a key
\* that is not there.  transcription is "absent", "null" or "object"; its keys
\* follow, confidence being "" (absent), "null" or a number.
Event(type, callId) ==
    [json |-> "object", type |-> type, callId |-> callId, transcription |-> "absent",
     text |-> "", isFinal |-> "", confidence |-> ""]

TranscriptionEvent(text, isFinal, confidence) ==
    [Event("TRANSCRIPTION", "c") EXCEPT !.transcription = "object", !.text = text,
                                        !.isFinal = isFinal, !.confidence = confidence]

InfobipBodies ==
    { [Event("", "") EXCEPT !.json = "malformed"],
      [Event("", "") EXCEPT !.json = "array"],
      Event("CALL_RECEIVED", "c"), Event("CALL_ESTABLISHED", "c"),
      Event("CALL_ESTABLISHED", ""), Event("CALL_FINISHED", "c"),
      Event("CALL_FAILED", "c"), Event("PING", "c"), Event("", "c"),
      Event("TRANSCRIPTION", "c"),
      [Event("TRANSCRIPTION", "c") EXCEPT !.transcription = "null"],
      TranscriptionEvent("hello", "true", "0.9"),
      TranscriptionEvent("hel", "false", "0.5"),
      TranscriptionEvent("hello", "true", "null") }

\* the event types of the webhook boundary
KnownTypes ==
    {"CALL_RECEIVED", "CALL_ESTABLISHED", "TRANSCRIPTION", "CALL_FINISHED", "CALL_FAILED"}

\* make_infobip_api_call: the request is sent; a RequestException is logged and
\* gives None.  calls are the requests sent so far
make_infobip_api_call(calls, endpoint, call_id, outcome) ==
    [api |-> calls \cup {[endpoint |-> endpoint, call_id |-> call_id]},
     sent |-> {[endpoint |-> endpoint, call_id |-> call_id]},
     result |-> outcome = "ok", called |-> TRUE]

accept_call(calls, call_id, outcome) ==
    make_infobip_api_call(calls, "accept", call_id, outcome)

start_transcription(calls, call_id, outcome) ==
    make_infobip_api_call(calls, "start-transcription", call_id, outcome)

handle_call_received(calls, call_data, outcome) ==
    IF call_data.callId = ""
    THEN [api |-> calls, sent |-> {}, result |-> FALSE, called |-> FALSE]
    ELSE accept_call(calls, call_data.callId, outcome)

handle_call_established(calls, call_data, outcome) ==
    IF call_data.callId = ""
    THEN [api |-> calls, sent |-> {}, result |-> FALSE, called |-> FALSE]
    ELSE start_transcription(calls, call_data.callId, outcome)

\* handle_transcription_event: the transcription is printed.  None has no get,
\* and a confidence of None has no format .2f: both raise.
\* attempts: the calls of add_document the handler has made
handle_transcription_event(transcription_data) ==
    [raised |-> \/ transcription_data.transcription = "null"
                \/ /\ transcription_data.transcription = "object"
                   /\ transcription_data.confidence = "null",
     attempts |-> 0]

\* a task scheduled for an event of any type
call_received_tasks_any(queue, webhook_data) ==
    Append(queue, [fn |-> "handle_call_received", call_data |-> webhook_data])

\* call_received_webhook, the dispatch on the event type: the background tasks
\* after it
call_received_tasks(queue, webhook_data) ==
    IF webhook_data.type = "CALL_RECEIVED"
    THEN Append(queue, [fn |-> "handle_call_received", call_data |-> webhook_data])
    ELSE IF webhook_data.type = "CALL_ESTABLISHED"
    THEN Append(queue, [fn |-> "handle_call_established", call_data |-> webhook_data])
    ELSE queue

\* POST /webhooks/call-received
CallReceivedWebhook(body) ==
    /\ Len(tasks) < MaxTasks
    /\ tasks' = IF body.json = "object" THEN call_received_tasks(tasks, body) ELSE tasks
    /\ resp' = [NoResp EXCEPT !.op = "call-received", !.event = body,
                              !.status = IF body.json = "object" THEN 200 ELSE 500]
    /\ UNCHANGED <<store, clock, uuids, ledger, callmind, api,
                   inflight, services, mcp_client>>

\* POST /webhooks/events
EventsWebhook(body, outcome) ==
    LET t == handle_transcription_event(body)
        e == handle_call_established(api, body, outcome)
        raised == \/ body.json # "object"
                  \/ body.type = "TRANSCRIPTION" /\ t.raised
        established == body.json = "object" /\ body.type = "CALL_ESTABLISHED"
    IN  /\ api' = IF established THEN e.api ELSE api
        /\ resp' = [NoResp EXCEPT !.op = "events", !.event = body,
                                  !.fault = IF established /\ e.called /\ outcome # "ok"
                                            THEN "call" ELSE "none",
                                  !.attempts = 0,
                                  !.sent = IF established THEN e.sent ELSE {},
                                  !.status = IF raised THEN 500 ELSE 200]
        /\ UNCHANGED <<store, clock, uuids, ledger, callmind, tasks,
                       inflight, services, mcp_client>>

\* a background task runs, after the response that scheduled it
RunBackgroundTask(outcome) ==
    /\ tasks # <<>>
    /\ LET task == Head(tasks)
           r == IF task.fn = "handle_call_received"
                THEN handle_call_received(api, task.call_data, outcome)
                ELSE handle_call_established(api, task.call_data, outcome)
       IN  /\ api' = r.api
           /\ tasks' = Tail(tasks)
           /\ resp' = [NoResp EXCEPT !.op = "task", !.event = task.call_data,
                                     !.sent = r.sent,
                                     !.fault = IF r.called /\ outcome # "ok"
                                               THEN "call" ELSE "none"]
    /\ UNCHANGED <<store, clock, uuids, ledger, callmind,
                   inflight, services, mcp_client>>

\* ------------------------------------------- calls of the relay that overlap
\* Two clients, each with one call to the manager, taken store call by store
\* call: what the call has read is kept in inflight[p] until it writes.
Busy(p) == inflight[p].pc \in {"add", "update", "list"}

\* the call of p begins: it overlaps with every call already under way
Begun(p, call) ==
    [q \in Procs |->
        IF q = p THEN [call EXCEPT !.overlap = \E o \in Procs \ {p} : Busy(o)]
        ELSE IF Busy(q) THEN [inflight[q] EXCEPT !.overlap = TRUE]
        ELSE inflight[q]]

\* add_document up to collection.add: the collection is opened, the id is
\* chosen and created_at is read from the clock
AddBegin(p, c, id, body) ==
    /\ inflight[p].pc = "idle"
    /\ LET st1 == get_or_create_collection(store, c)
           rid == doc_id([id |-> id], uuid4)
       IN  /\ store' = st1
           /\ clock' = clock + 1
           /\ uuids' = IF id = "" THEN uuids + 1 ELSE uuids
           /\ inflight' = Begun(p, [Idle EXCEPT
                    !.pc = "add", !.op = "add", !.coll = c, !.id = id, !.rid = rid,
                    !.content = body.content,
                    !.metadata = Put(body.metadata, "created_at", isoformat(clock + 1)),
                    !.count0 = CollCount(st1[c]), !.existed = rid \in DOMAIN st1[c]])
    /\ UNCHANGED <<ledger, callmind, tasks, api, services, mcp_client, resp>>

\* add_document, collection.add and the return; the add raises when the
\* collection has been deleted since it was opened
AddStore(p) ==
    /\ inflight[p].pc = "add"
    /\ LET call == inflight[p]
           there == call.coll \in DOMAIN store
       IN  /\ store' = IF there
                       THEN [store EXCEPT ![call.coll] =
                               CollAdd(@, call.rid, call.content, call.metadata)]
                       ELSE store
           /\ inflight' = [inflight EXCEPT ![p] =
                             [call EXCEPT !.pc = "done",
                                          !.status = IF there THEN 200 ELSE 500]]
    /\ UNCHANGED <<clock, uuids, ledger, callmind, tasks, api, services, mcp_client, resp>>

\* update_document up to collection.update: the collection is opened, the
\* document is read, the new content and metadata are computed from it
UpdateBegin(p, c, id, body) ==
    /\ inflight[p].pc = "idle"
    /\ LET st1 == get_or_create_collection(store, c)
           existing == CollGet(st1[c], id)
           found == existing.documents # <<>>
       IN  /\ store' = st1
           /\ clock' = IF found THEN clock + 1 ELSE clock
           /\ inflight' = Begun(p,
                    IF found
                    THEN [Idle EXCEPT
                            !.pc = "update", !.op = "update", !.coll = c, !.id = id,
                            !.content = body.content, !.metadata = body.metadata,
                            !.new_content = new_content(body, existing),
                            !.new_metadata = new_metadata(body, existing, clock + 1),
                            !.existed = TRUE]
                    ELSE [Idle EXCEPT
                            !.pc = "done", !.op = "update", !.coll = c, !.id = id,
                            !.content = body.content, !.metadata = body.metadata,
                            !.status = 404])
    /\ UNCHANGED <<uuids, ledger, callmind, tasks, api, services, mcp_client, resp>>

\* update_document, collection.update and the return
UpdateStore(p) ==
    /\ inflight[p].pc = "update"
    /\ LET call == inflight[p]
           there == call.coll \in DOMAIN store
       IN  /\ store' = IF there
                       THEN [store EXCEPT ![call.coll] =
                               CollUpdate(@, call.id, call.new_content, call.new_metadata)]
                       ELSE store
           /\ inflight' = [inflight EXCEPT ![p] =
                             [call EXCEPT !.pc = "done",
                                          !.status = IF there THEN 200 ELSE 404]]
    /\ UNCHANGED <<clock, uuids, ledger, callmind, tasks, api, services, mcp_client, resp>>

\* list_collections, client.list_collections(): the collections are enumerated
ListBegin(p) ==
    /\ inflight[p].pc = "idle"
    /\ \E names \in Orders(DOMAIN store) :
         inflight' = Begun(p, [Idle EXCEPT !.pc = "list", !.op = "list", !.names = names,
                                           !.enumerated = DOMAIN store])
    /\ UNCHANGED <<store, clock, uuids, ledger, callmind, tasks, api, services,
                   mcp_client, resp>>

\* list_collections, one turn of the loop: client.get_collection(name) and its
\* count; the lookup raises for a collection that is no longer there, and the
\* endpoint, which has no handler for it, answers 500.  After the last turn the
\* list is returned.
ListCount(p) ==
    /\ inflight[p].pc = "list"
    /\ LET call == inflight[p]
       IN  inflight' = [inflight EXCEPT ![p] =
             IF call.names = <<>> THEN [call EXCEPT !.pc = "done", !.status = 200]
             ELSE IF Head(call.names) \notin DOMAIN store
             THEN [call EXCEPT !.pc = "done", !.status = 500, !.listing = EmptyMap]
             ELSE [call EXCEPT !.names = Tail(@),
                               !.listing = Put(@, Head(call.names),
                                               CollCount(store[Head(call.names)]))]]
    /\ UNCHANGED <<store, clock, uuids, ledger, callmind, tasks, api, services,
                   mcp_client, resp>>

\* ------------------------------------------------------------- start-up
\* The environment a service reads when its module is loaded; "" is a variable
\* that is not set or is empty.
TwilioEnvs ==
    [TWILIO_ACCOUNT_SID : {"", "AC1"}, TWILIO_AUTH_TOKEN : {"", "tok"},
     BASE_URL : {"", "https://x"}]

InfobipEnvs == [INFOBIP_API_KEY : {"", "key"}, INFOBIP_BASE_URL : {"", "api.x"}]

\* a service that starts when one of the two credentials is set
twilio_configured_either(env) ==
    env.TWILIO_ACCOUNT_SID # "" \/ env.TWILIO_AUTH_TOKEN # ""

\* twilio_server/app.py and twilio/app.py, "Configuration": no ValueError
twilio_configured(env) ==
    ~(env.TWILIO_ACCOUNT_SID = "" \/ env.TWILIO_AUTH_TOKEN = "")

\* mcp_server/app.py, "Configuration": no ValueError
infobip_configured(env) ==
    ~(env.INFOBIP_API_KEY = "" \/ env.INFOBIP_BASE_URL = "")

\* The module of a service is loaded: it serves if loading raised nothing.
\* status is the exit code of the process.
StartService(name, env, started) ==
    /\ name \notin DOMAIN services
    /\ services' = IF started THEN Put(services, name, env) ELSE services
    /\ resp' = [NoResp EXCEPT !.op = "start", !.coll = name, !.event = env,
                              !.status = IF started THEN 0 ELSE 1]
    /\ UNCHANGED <<store, clock, uuids, ledger, callmind, tasks, api, inflight,
                   mcp_client>>

\* twilio_server/app.py: chromadb_utils is imported first and opens the cloud
\* collection, which raises when the cloud cannot be reached
StartTwilioServer(env, cloud) ==
    StartService("twilio_server", env, cloud = "ok" /\ twilio_configured(env))

\* twilio/app.py
StartTwilioApp(env) == StartService("twilio", env, twilio_configured(env))

\* mcp_server/app.py
StartInfobip(env) == StartService("infobip", env, infobip_configured(env))

\* the process of a service ends
StopService(name) ==
    /\ name \in DOMAIN services
    /\ services' = [x \in DOMAIN services \ {name} |-> services[x]]
    /\ tasks' = IF name = "infobip" THEN <<>> ELSE tasks
    /\ resp' = [NoResp EXCEPT !.op = "stop", !.coll = name]
    /\ UNCHANGED <<store, clock, uuids, ledger, callmind, api, inflight, mcp_client>>

\* ------------------------------------------- mcp_server/callmind_mcp.py
ToolNames ==
    {"connect_chroma", "query_collection", "list_collections", "get_collection_info",
     "delete_collection"}

\* request.params.arguments; "" is an argument that is not given
ToolArgs ==
    {[collection_name |-> c, query_text |-> "hello"] : c \in {"", "callmind", "nosuch"}}
        \cup {[collection_name |-> "callmind", query_text |-> ""]}

\* the collections of the cloud database
CloudCollections == Map1("callmind", callmind)

\* a tool that goes to the store whatever self.client is
connected_always(client) == TRUE

\* "if not self.client: raise": the test each tool but connect_chroma begins with
connected(client) == client # "None"

\* The tools return [client, isError, calls, count]: self.client afterwards,
\* whether the tool raised (call_tool answers isError for every exception),
\* the calls made to the cloud, and the count of the answer.
\* initialize_chroma_client and _connect_chroma
connect_chroma(client, api_key, cloud) ==
    IF api_key = "" THEN [client |-> client, isError |-> TRUE, calls |-> 0, count |-> 0]
    ELSE IF cloud # "ok"
    THEN [client |-> client, isError |-> TRUE, calls |-> 1, count |-> 0]
    ELSE [client |-> "connected", isError |-> FALSE, calls |-> 1, count |-> 0]

query_collection(client, args, cloud, order) ==
    IF ~connected(client) \/ args.collection_name = "" \/ args.query_text = ""
    THEN [client |-> client, isError |-> TRUE, calls |-> 0, count |-> 0]
    ELSE IF cloud # "ok" \/ args.collection_name \notin DOMAIN CloudCollections
    THEN [client |-> client, isError |-> TRUE, calls |-> 1, count |-> 0]
    ELSE LET results == CollQuery(CloudCollections[args.collection_name],
                                  args.query_text, 10, EmptyMap, order)
         IN  [client |-> client, isError |-> FALSE, calls |-> 2,
              count |-> Len(results.ids[1])]

mcp_list_collections(client, cloud) ==
    IF ~connected(client)
    THEN [client |-> client, isError |-> TRUE, calls |-> 0, count |-> 0]
    ELSE IF cloud # "ok"
    THEN [client |-> client, isError |-> TRUE, calls |-> 1, count |-> 0]
    ELSE [client |-> client, isError |-> FALSE, calls |-> 1,
          count |-> Cardinality(DOMAIN CloudCollections)]

get_collection_info(client, args, cloud) ==
    IF ~connected(client) \/ args.collection_name = ""
    THEN [client |-> client, isError |-> TRUE, calls |-> 0, count |-> 0]
    ELSE IF cloud # "ok" \/ args.collection_name \notin DOMAIN CloudCollections
    THEN [client |-> client, isError |-> TRUE, calls |-> 1, count |-> 0]
    ELSE [client |-> client, isError |-> FALSE, calls |-> 2,
          count |-> CollCount(CloudCollections[args.collection_name])]

\* call_tool: status 0 is a result, 1 a result with isError; no exception
\* leaves the method
CallTool(name, args, api_key, cloud) ==
    \E order \in Rankings(callmind, args.query_text) :
      LET r == CASE name = "connect_chroma" -> connect_chroma(mcp_client, api_key, cloud)
                 [] name = "query_collection" ->
                      query_collection(mcp_client, args, cloud, order)
                 [] name = "list_collections" -> mcp_list_collections(mcp_client, cloud)
                 [] name = "get_collection_info" ->
                      get_collection_info(mcp_client, args, cloud)
                 [] OTHER -> [client |-> mcp_client, isError |-> TRUE, calls |-> 0,
                              count |-> 0]
      IN  /\ mcp_client' = r.client
          /\ resp' = [NoResp EXCEPT !.op = "tool", !.id = name, !.event = args,
                                    !.fault = IF r.calls > 0 /\ cloud # "ok" THEN "call"
                                              ELSE "none",
                                    !.attempts = r.calls, !.n = r.count,
                                    !.status = IF r.isError THEN 1 ELSE 0]
          /\ UNCHANGED <<store, clock, uuids, ledger, callmind, tasks, api, inflight,
                         services>>

\* the ids a request may name: the caller's own and those the relay has handed out
KnownIds == CallerIds \cup {UuidNames[i] : i \in 1..uuids}

Next ==
    \/ \E fault \in {"none", "call"} : ListCollections(fault)
    \/ \E c \in Collections, id \in CallerIds \cup {""}, body \in AddBodies,
          fault \in Faults : AddDocument(c, id, body, fault)
    \/ \E c \in Collections, q \in Queries, n \in 0..MaxK, where \in Wheres,
          fault \in Faults : QueryDocuments(c, q, n, where, fault)
    \/ \E c \in Collections, id \in KnownIds, fault \in Faults : GetDocument(c, id, fault)
    \/ \E c \in Collections, id \in KnownIds, body \in UpdateBodies, fault \in Faults :
         UpdateDocument(c, id, body, fault)
    \/ \E c \in Collections, id \in KnownIds, fault \in Faults : DeleteDocument(c, id, fault)
    \/ \E c \in Collections, fault \in {"none", "call"} : DeleteCollection(c, fault)
    \/ \E c \in Collections, fault \in Faults : GetCollectionCount(c, fault)

\* The store answers every call: the relay's requests with no failure injected.
RelayOk ==
    \/ ListCollections("none")
    \/ \E c \in Collections, id \in CallerIds \cup {""}, body \in AddBodies :
         AddDocument(c, id, body, "none")
    \/ \E c \in Collections, q \in Queries, n \in 0..MaxK,
          where \in {w \in Wheres : Cardinality(DOMAIN w) < 2} :
         QueryDocuments(c, q, n, where, "none")
    \/ \E c \in Collections, id \in KnownIds : GetDocument(c, id, "none")
    \/ \E c \in Collections, id \in KnownIds, body \in UpdateBodies :
         UpdateDocument(c, id, body, "none")
    \/ \E c \in Collections, id \in KnownIds : DeleteDocument(c, id, "none")
    \/ \E c \in Collections : DeleteCollection(c, "none")
    \/ \E c \in Collections : GetCollectionCount(c, "none")

\* The requests that name a document or answer with documents, on both
\* collections.
Identifying ==
    \/ \E c \in Collections, id \in CallerIds \cup {""}, body \in AddBodies :
         AddDocument(c, id, body, "none")
    \/ \E c \in Collections, q \in Queries, n \in 1..MaxK :
         QueryDocuments(c, q, n, EmptyMap, "none")
    \/ \E c \in Collections, id \in KnownIds, body \in UpdateBodies :
         UpdateDocument(c, id, body, "none")
    \/ \E c \in Collections, id \in KnownIds : DeleteDocument(c, id, "none")

\* The queries of both services, and the requests that fill their collections.
Filtering ==
    \/ \E id \in CallerIds \cup {""}, body \in AddBodies :
         AddDocument("c1", id, body, "none")
    \/ \E q \in Queries, n \in 0..MaxK, where \in Wheres :
         QueryDocuments("c1", q, n, where, "none")
    \/ \E text \in Texts, status \in {"completed", "failed"}, From \in Numbers,
          To \in Numbers :
         HandleTranscription("CA1", text, status, "RE1", From, To, "none")
    \/ \E n \in 1..MaxK, from_number \in {"", "+1"}, to_number \in {"", "+2"} :
         SearchTranscriptions("hello", n, from_number, to_number)

\* The relay on one collection, with a store that may fail any call and callers
\* that send whatever DocumentModel and QueryModel let through.  What the
\* embedding of an empty text does is the store's affair: it answers or fails.
Failing ==
    \/ \E fault \in {"none", "call"} : ListCollections(fault)
    \/ \E id \in CallerIds \cup {""}, body \in AddBodies \cup EmptyBodies,
          fault \in Faults : AddDocument("c1", id, body, fault)
    \/ \E q \in Queries \cup {""}, n \in (-1)..1, fault \in Faults :
         QueryDocuments("c1", q, n, EmptyMap, fault)
    \/ \E id \in KnownIds, fault \in Faults : GetDocument("c1", id, fault)
    \/ \E id \in KnownIds, body \in UpdateBodies, fault \in Faults :
         UpdateDocument("c1", id, body, fault)
    \/ \E id \in KnownIds, fault \in Faults : DeleteDocument("c1", id, fault)
    \/ \E fault \in {"none", "call"} : DeleteCollection("c1", fault)
    \/ \E fault \in Faults : GetCollectionCount("c1", fault)

\* The webhooks of the Twilio services and of the Infobip service.
Webhooks ==
    \/ HandleIncomingCall
    \/ \E text \in Texts, status \in Statuses \ {"completed"},
          fault \in {"none", "call"} :
         HandleTranscription("CA1", text, status, "RE1", "+1", "+2", fault)
    \/ HandleRecordingComplete("CA1", "RE1")
    \/ \E CallStatus \in {"completed", "ringing"} : HandleCallStatus("CA1", CallStatus)
    \/ \E text \in Texts, status \in {"completed", "failed"} :
         TwilioAppHandleTranscription("CA1", text, status)
    \/ \E body \in InfobipBodies : CallReceivedWebhook(body)
    \/ \E body \in InfobipBodies, outcome \in {"ok", "error"} :
         EventsWebhook(body, outcome)
    \/ \E outcome \in {"ok", "error"} : RunBackgroundTask(outcome)

\* Collections made, read and deleted, with the store answering every call.
Collecting ==
    \/ ListCollections("none")
    \/ \E c \in Collections, id \in CallerIds \cup {""}, body \in AddBodies :
         AddDocument(c, id, body, "none")
    \/ \E c \in Collections, id \in KnownIds : GetDocument(c, id, "none")
    \/ \E c \in Collections : DeleteCollection(c, "none")
    \/ \E c \in Collections : GetCollectionCount(c, "none")

\* The services from the loading of their modules, and the tools of the MCP
\* server: a webhook is handled by a service that is running.
Serving ==
    \/ \E env \in TwilioEnvs, cloud \in {"ok", "down"} : StartTwilioServer(env, cloud)
    \/ \E env \in TwilioEnvs : StartTwilioApp(env)
    \/ \E env \in InfobipEnvs : StartInfobip(env)
    \/ \E name \in {"twilio_server", "twilio", "infobip"} : StopService(name)
    \/ "twilio_server" \in DOMAIN services /\ HandleIncomingCall
    \/ /\ "twilio_server" \in DOMAIN services
       /\ \E status \in {"completed", "failed"} :
            HandleTranscription("CA1", "hello", status, "RE1", "+1", "+2", "none")
    \/ /\ "twilio" \in DOMAIN services
       /\ TwilioAppHandleTranscription("CA1", "hello", "completed")
    \/ /\ "infobip" \in DOMAIN services
       /\ EventsWebhook(Event("CALL_ESTABLISHED", "c"), "ok")
    \/ \E name \in ToolNames, args \in ToolArgs, api_key \in {"", "ck"},
          cloud \in {"ok", "down"} : CallTool(name, args, api_key, cloud)

\* Two calls to one collection that overlap, after requests served one at a
\* time have filled it.
Racing ==
    \/ /\ \A p \in Procs : inflight[p].pc = "idle"
       /\ \E id \in {"a", ""} : AddDocument("c1", id, CHOOSE b \in AddBodies : b.content = "B",
                                            "none")
    \/ \E p \in Procs, id \in {"a", "b", ""}, body \in AddBodies : AddBegin(p, "c1", id, body)
    \/ \E p \in Procs : AddStore(p)
    \/ \E p \in Procs, body \in UpdateBodies : UpdateBegin(p, "c1", "a", body)
    \/ \E p \in Procs : UpdateStore(p)

\* A listing taken while collections are made and deleted.
Listing ==
    \/ \E p \in Procs : ListBegin(p)
    \/ \E p \in Procs : ListCount(p)
    \/ \E c \in Collections, body \in AddBodies : AddDocument(c, "a", body, "none")
    \/ \E c \in Collections : DeleteCollection(c, "none")

Spec == Init /\ [][Next]_vars

SpecIds == Init /\ [][Identifying]_vars

SpecRacing == Init /\ [][Racing]_vars

SpecListing == Init /\ [][Listing]_vars

SpecServing == Init /\ [][Serving]_vars

SpecCollections == Init /\ [][Collecting]_vars

SpecWebhooks == Init /\ [][Webhooks]_vars

SpecFailing == Init /\ [][Failing]_vars

SpecRelay == Init /\ [][RelayOk]_vars

SpecFilter == Init /\ [][Filtering]_vars

\* ----------------------------------------------------------------- claims
\* what get_document answers for the id of the last request, in the state reached
GetAfter == get_document(store, resp.coll, resp.rid, "none").doc

\* C1: after add_document(collection, content, metadata) succeeds, get_document
\* with the returned id gives a document with the input content and a metadata
\* holding every input key with its input value, and a created_at key.
C1_AddThenGetReturnsInput ==
    (resp.op = "add" /\ resp.status = 200) =>
        /\ GetAfter # <<>>
        /\ GetAfter[1].content = resp.content
        /\ \A k \in DOMAIN resp.metadata :
             k \in DOMAIN GetAfter[1].metadata /\ GetAfter[1].metadata[k] = resp.metadata[k]
        /\ "created_at" \in DOMAIN GetAfter[1].metadata

\* C2: when the metadata of a new document already has a created_at key, the
\* stored document keeps the caller's value.
C2_CallerCreatedAtKept ==
    (/\ resp.op = "add" /\ resp.status = 200 /\ resp.before = <<>>
     /\ "created_at" \in DOMAIN resp.metadata) =>
        store[resp.coll][resp.rid].metadata["created_at"] = resp.metadata["created_at"]

\* C3: delete_document on an id that is not in the collection answers false
\* (HTTP 404), and get_document for that id afterwards finds nothing.
C3_DeleteAbsentIsNotFound ==
    (resp.op = "delete" /\ resp.before = <<>>) =>
        /\ resp.status = 404
        /\ get_document(store, resp.coll, resp.id, "none").doc = <<>>

\* the document the last request names, as stored in the state reached
After == store[resp.coll][resp.id]

\* C4: update_document with the content omitted leaves the stored content of
\* the document as it was before the call.
C4_MetadataOnlyKeepsContent ==
    (resp.op = "update" /\ resp.content = "" /\ resp.before # <<>>) =>
        After.content = resp.before[1].content

C4_Witness ==
    /\ resp.op = "update" /\ resp.status = 200
    /\ resp.content = "" /\ resp.metadata # EmptyMap
    /\ resp.before # <<>> /\ resp.before[1].content = "B"

\* C5 as claimed: a successful update_document leaves an updated_at key, and
\* with the metadata omitted every stored key keeps its value.
C5_OmittedMetadataKeepsAll ==
    (resp.op = "update" /\ resp.status = 200) =>
        /\ "updated_at" \in DOMAIN After.metadata
        /\ resp.metadata = EmptyMap =>
             \A k \in DOMAIN resp.before[1].metadata :
                /\ k \in DOMAIN After.metadata
                /\ After.metadata[k] = resp.before[1].metadata[k]

\* C5 as amended: a successful update_document leaves an updated_at key, and
\* with the metadata omitted every stored key stays, with its value unless the
\* key is updated_at, whose value is the time of the update.
C5_OmittedMetadataKeepsAllButUpdatedAt ==
    (resp.op = "update" /\ resp.status = 200) =>
        /\ "updated_at" \in DOMAIN After.metadata
        /\ After.metadata["updated_at"] = isoformat(clock)
        /\ resp.metadata = EmptyMap =>
             \A k \in DOMAIN resp.before[1].metadata :
                /\ k \in DOMAIN After.metadata
                /\ k # "updated_at" => After.metadata[k] = resp.before[1].metadata[k]

C5_Witness ==
    /\ resp.op = "update" /\ resp.status = 200 /\ resp.metadata = EmptyMap
    /\ "updated_at" \in DOMAIN resp.before[1].metadata
    /\ "created_at" \in DOMAIN After.metadata
    /\ After.metadata["updated_at"] # resp.before[1].metadata["updated_at"]

\* C6: update_document on an id that is not in the collection answers false
\* (HTTP 404, no exception) and creates no document with that id.
C6_UpdateMissingIsNotFound ==
    (resp.op = "update" /\ resp.before = <<>>) =>
        /\ resp.status = 404
        /\ resp.id \notin DOMAIN store[resp.coll]

C6_Witness == resp.op = "update" /\ resp.before = <<>> /\ resp.status = 404

RECURSIVE SumOver(_, _)
SumOver(f, S) ==
    IF S = {} THEN 0
    ELSE LET x == CHOOSE y \in S : TRUE IN f[x] + SumOver(f, S \ {x})

C8_AtMostKNearestFirst ==
    (resp.op = "query" /\ resp.status = 200) =>
        /\ Len(resp.matches) <= resp.n
        /\ \A i, j \in DOMAIN resp.matches :
             i < j => resp.matches[i].distance <= resp.matches[j].distance

C8_Witness ==
    /\ resp.op = "query" /\ resp.status = 200
    /\ Len(resp.matches) = 2
    /\ resp.matches[1].distance < resp.matches[2].distance

\* every key of the filter is in the metadata with the value asked for
Satisfies(metadata, filter) ==
    \A k \in DOMAIN filter : k \in DOMAIN metadata /\ metadata[k] = filter[k]

\* C9: a query with a metadata filter answers only documents whose stored
\* metadata has the required value for every key of the filter, in
\* query_documents and in search_transcriptions (from_number and to_number).
C9_FilterIsConjunction ==
    /\ (resp.op = "query" /\ resp.status = 200) =>
         \A i \in DOMAIN resp.matches :
            /\ resp.matches[i].id \in DOMAIN store[resp.coll]
            /\ Satisfies(store[resp.coll][resp.matches[i].id].metadata, resp.metadata)
    /\ (resp.op = "search" /\ resp.status = 200) =>
         \A i \in DOMAIN resp.matches :
            \E id \in DOMAIN callmind :
               /\ callmind[id].content = resp.matches[i].transcription
               /\ callmind[id].metadata = resp.matches[i].metadata
               /\ resp.from # "" => callmind[id].metadata["from_number"] = resp.from
               /\ resp.to # "" => callmind[id].metadata["to_number"] = resp.to

C9_Witness ==
    /\ resp.op = "query" /\ resp.status = 200
    /\ resp.metadata = Map1("topic", "x")
    /\ Len(resp.matches) = 1
    /\ Cardinality(DOMAIN store[resp.coll]) = 2

\* C10: get_document answers the document stored under the id when there is
\* one, and not-found (HTTP 404, no exception) when there is none.
C10_GetFindsOrIsAbsent ==
    resp.op = "get" =>
        IF resp.before # <<>>
        THEN /\ resp.status = 200
             /\ resp.doc = << [id |-> resp.id, content |-> resp.before[1].content,
                              metadata |-> resp.before[1].metadata] >>
        ELSE resp.status = 404 /\ resp.doc = <<>>

C10_Witness ==
    /\ resp.op = "get" /\ resp.status = 404
    /\ resp.coll \in DOMAIN store /\ store[resp.coll] # EmptyMap

C12_AddCreatesCollection ==
    (resp.op = "add" /\ resp.status = 200 /\ ~resp.existed) =>
        /\ resp.coll \in DOMAIN list_collections(store)
        /\ list_collections(store)[resp.coll] = 1
        /\ GetAfter # <<>>
        /\ GetAfter[1].content = resp.content

C12_Witness ==
    /\ resp.op = "add" /\ resp.status = 200 /\ ~resp.existed
    /\ DOMAIN store = Collections

\* C13: delete_collection answers false (HTTP 404) for a collection that is not
\* there, as the second of two deletes finds it; after a delete that succeeds
\* the collection is not listed and none of its documents is found.
C13_DeleteCollectionOnce ==
    resp.op = "drop" =>
        IF resp.existed
        THEN /\ resp.status = 200
             /\ resp.coll \notin DOMAIN list_collections(store)
             /\ \A id \in KnownIds :
                  get_document(store, resp.coll, id, "none").doc = <<>>
        ELSE resp.status = 404

C13_Witness ==
    /\ resp.op = "drop" /\ resp.status = 404 /\ ~resp.existed
    /\ uuids > 0 /\ store = EmptyMap

\* C14: a failure of the store during get_document, update_document,
\* delete_document, delete_collection or list_collections is answered with
\* HTTP 500, never with HTTP 404.
C14_StoreFailureIs500 ==
    (resp.op \in {"get", "update", "delete", "drop", "list"} /\ resp.fault # "none") =>
        resp.status = 500

\* C15: when collection.add fails, add_document has called it once, the answer
\* is HTTP 500, and the call leaves every collection with the documents it had
\* (the collection it opened is empty if it was not there).
C15_FailedAddOnceNothingStored ==
    [][(resp'.op = "add" /\ resp'.fault = "call") =>
          /\ resp'.status = 500
          /\ resp'.attempts = 1
          /\ \A c \in DOMAIN store' :
                store'[c] = IF c \in DOMAIN store THEN store[c] ELSE EmptyMap]_vars

C15_Witness ==
    /\ resp.op = "add" /\ resp.fault = "call" /\ resp.status = 500
    /\ resp.coll \in DOMAIN store /\ store[resp.coll] # EmptyMap

\* C16: add_document with an empty content, and query_documents with an empty
\* query text or with n_results below 1, are answered with HTTP 422 or 400 and
\* make no call to the store.
C16_InvalidInputRejected ==
    [][(\/ resp'.op = "add" /\ resp'.content = ""
        \/ resp'.op = "query" /\ (resp'.content = "" \/ resp'.n < 1)) =>
          /\ resp'.status \in {400, 422}
          /\ store' = store]_vars

\* the last request is a transcription callback of a Twilio service
TwilioTranscription == resp.op \in {"transcription", "twilio-transcription"}

\* C17: every webhook that receives a final transcription with a text that is
\* not empty calls add_document with the transcription as content and the call
\* and recording identifiers as metadata: the transcription webhooks of Twilio
\* and the TRANSCRIPTION event of Infobip with isFinal true.
C17_FinalTranscriptionStored ==
    /\ (/\ TwilioTranscription
        /\ Lower(resp.event["TranscriptionStatus"]) = "completed"
        /\ Strip(resp.content) # "") =>
            /\ resp.attempts = 1
            /\ resp.fault = "none" =>
                 /\ resp.rid \in DOMAIN callmind
                 /\ callmind[resp.rid].content = resp.content
                 /\ callmind[resp.rid].metadata["call_sid"] = resp.id
                 /\ callmind[resp.rid].metadata["recording_sid"] = "RE1"
    /\ (/\ resp.op = "events" /\ resp.event.json = "object"
        /\ resp.event.type = "TRANSCRIPTION" /\ resp.event.transcription = "object"
        /\ resp.event.isFinal = "true" /\ resp.event.text # "") =>
            resp.attempts = 1

\* C18: a Twilio transcription callback whose status is not "completed" in any
\* case of letters, or whose text is empty or blank, and an Infobip
\* TRANSCRIPTION event whose isFinal is not true, make no add_document call and
\* leave the stores as they were.
C18_PartialNotStored ==
    [][(\/ /\ resp'.op \in {"transcription", "twilio-transcription"}
           /\ \/ Lower(resp'.event["TranscriptionStatus"]) # "completed"
              \/ Strip(resp'.content) = ""
        \/ /\ resp'.op = "events" /\ resp'.event.json = "object"
           /\ resp'.event.type = "TRANSCRIPTION" /\ resp'.event.isFinal # "true") =>
          /\ resp'.attempts = 0
          /\ callmind' = callmind
          /\ store' = store]_vars

C18_Witness ==
    /\ resp.op = "transcription" /\ resp.event["TranscriptionStatus"] = "failed"
    /\ resp.content = "hello" /\ resp.attempts = 0
    /\ callmind # EmptyMap

\* C19: every webhook answers every request with HTTP 200, whatever happens
\* while the request is handled.
C19_WebhooksAnswer200 ==
    resp.op \in {"voice", "transcription", "recording-complete", "call-status",
                 "twilio-transcription", "call-received", "events"} =>
        resp.status = 200

\* C20: an event whose type is none of the known ones is answered with HTTP 200
\* and ignored: no call to the provider, no background task, nothing stored.
C20_UnknownEventIgnored ==
    [][(/\ resp'.op \in {"call-received", "events"}
        /\ resp'.event.json = "object"
        /\ resp'.event.type \notin KnownTypes) =>
          /\ resp'.status = 200
          /\ api' = api
          /\ tasks' = tasks
          /\ callmind' = callmind
          /\ store' = store]_vars

C20_Witness ==
    /\ resp.op = "call-received" /\ resp.event.json = "object"
    /\ resp.event.type = "PING" /\ resp.status = 200
    /\ tasks # <<>> /\ api # {}

\* C21 (first half, and the second half as claimed): update_document removes
\* no stored metadata key when no metadata mapping is sent; when one is sent,
\* the stored metadata after the call is that mapping plus updated_at and
\* nothing else.
C21_SuppliedMetadataReplaces ==
    (resp.op = "update" /\ resp.status = 200) =>
        IF resp.metadata = EmptyMap
        THEN DOMAIN resp.before[1].metadata \subseteq DOMAIN After.metadata
        ELSE After.metadata = Put(resp.metadata, "updated_at", isoformat(clock))

\* C22: a collection never holds two documents with one id (an add of an id
\* that is there does not change the count, and no query answers an id twice),
\* and an add, update or delete in one collection leaves the documents of every
\* other collection as they were.
C22_IdsPerCollection ==
    [][/\ (resp'.op \in {"add", "update", "delete"}) =>
            \A c \in DOMAIN store \ {resp'.coll} :
               c \in DOMAIN store' /\ store'[c] = store[c]
       /\ (/\ resp'.op = "add" /\ resp'.status = 200
           /\ resp'.coll \in DOMAIN store /\ resp'.rid \in DOMAIN store[resp'.coll]) =>
            CollCount(store'[resp'.coll]) = CollCount(store[resp'.coll])
       /\ (resp'.op = "query" /\ resp'.status = 200) =>
            \A i, j \in DOMAIN resp'.matches :
               i # j => resp'.matches[i].id # resp'.matches[j].id]_vars

C22_Witness ==
    /\ resp.op = "delete" /\ resp.status = 200 /\ resp.before # <<>>
    /\ \E c \in DOMAIN store \ {resp.coll} : resp.id \in DOMAIN store[c]

\* C25: get_document, query_documents, the count endpoint, update_document of
\* an id that is not there and delete_document leave the set of collections as
\* it was: none of them creates the collection it names.
C25_ReadsCreateNothing ==
    [][(\/ resp'.op \in {"get", "query", "count", "delete"}
        \/ resp'.op = "update" /\ resp'.status = 404) =>
          DOMAIN store' = DOMAIN store]_vars

\* the documents stored for one recording of one call
TranscriptsOf(CallSid, RecordingSid) ==
    {id \in DOMAIN callmind :
        /\ callmind[id].metadata["call_sid"] = CallSid
        /\ callmind[id].metadata["recording_sid"] = RecordingSid}

\* C28: the store holds at most one transcript for a recording of a call, also
\* when the transcription webhook is delivered again with the same CallSid and
\* RecordingSid.
C28_OneTranscriptPerRecording ==
    Cardinality(TranscriptsOf("CA1", "RE1")) <= 1

\* C30: start-transcription is sent at most once for a call id, and only for a
\* CALL_ESTABLISHED event of that call id, whichever webhook received it;
\* accept is sent only for a CALL_RECEIVED event that carries the call id.
C30_StartTranscriptionOnce ==
    [][\A call \in resp'.sent :
          IF call.endpoint = "start-transcription"
          THEN /\ call \notin api
               /\ resp'.event.type = "CALL_ESTABLISHED"
               /\ resp'.event.callId = call.call_id
          ELSE /\ resp'.event.type = "CALL_RECEIVED"
               /\ resp'.event.callId = call.call_id /\ call.call_id # ""]_vars

\* the webhooks each service handles
WebhooksOf ==
    [twilio_server |-> {"voice", "transcription", "recording-complete", "call-status"},
     twilio |-> {"twilio-transcription"},
     infobip |-> {"call-received", "events", "task"}]

\* C24: a Twilio service runs only with TWILIO_ACCOUNT_SID and
\* TWILIO_AUTH_TOKEN both set, the Infobip service only with INFOBIP_API_KEY
\* and INFOBIP_BASE_URL both set, and a webhook is handled only by a service
\* that runs so.
C24_StartedWithCredentials ==
    LET Ready(name) ==
            /\ name \in DOMAIN services
            /\ IF name = "infobip"
               THEN /\ services[name].INFOBIP_API_KEY # ""
                    /\ services[name].INFOBIP_BASE_URL # ""
               ELSE /\ services[name].TWILIO_ACCOUNT_SID # ""
                    /\ services[name].TWILIO_AUTH_TOKEN # ""
    IN  /\ \A name \in DOMAIN services : Ready(name)
        /\ \A name \in DOMAIN WebhooksOf : resp.op \in WebhooksOf[name] => Ready(name)

C24_Witness ==
    /\ resp.op = "transcription" /\ resp.rid # ""
    /\ DOMAIN services = {"twilio_server", "twilio", "infobip"}
    /\ services["twilio_server"].BASE_URL = ""

\* C29: query_collection, list_collections and get_collection_info answer a
\* result without isError only when connect_chroma has succeeded before; until
\* then each answers isError and makes no call to the store.  call_tool always
\* answers a result, and for a tool name it does not know one with isError.
C29_ToolsNeedConnection ==
    [][resp'.op = "tool" =>
          /\ resp'.status \in {0, 1}
          /\ (/\ resp'.id \in {"query_collection", "list_collections",
                                "get_collection_info"}
              /\ mcp_client = "None") =>
                 resp'.status = 1 /\ resp'.attempts = 0
          /\ mcp_client' # mcp_client =>
                 resp'.id = "connect_chroma" /\ resp'.status = 0
          /\ resp'.id \notin {"connect_chroma", "query_collection", "list_collections",
                               "get_collection_info"} =>
                 resp'.status = 1 /\ resp'.attempts = 0]_vars

C29_Witness ==
    /\ resp.op = "tool" /\ resp.id = "query_collection" /\ resp.status = 0
    /\ resp.n = 1 /\ mcp_client = "connected"

\* two calls of the kind given that have both returned 200 for one collection
BothDone(p, q, op) ==
    /\ p # q
    /\ inflight[p].pc = "done" /\ inflight[q].pc = "done"
    /\ inflight[p].op = op /\ inflight[q].op = op
    /\ inflight[p].status = 200 /\ inflight[q].status = 200
    /\ inflight[p].coll = inflight[q].coll

\* both documents are in the collection, as sent, and it counts two more
\* than before the first call began
BothPersisted(p, q) ==
    LET coll == store[inflight[p].coll]
    IN  /\ \A r \in {p, q} :
             /\ inflight[r].rid \in DOMAIN coll
             /\ coll[inflight[r].rid] =
                  [content |-> inflight[r].content, metadata |-> inflight[r].metadata]
        /\ CollCount(coll) = Min(inflight[p].count0, inflight[q].count0) + 2

C26_BothUpdatesTakeEffect ==
    \A p, q \in Procs :
       (/\ BothDone(p, q, "update") /\ inflight[p].id = inflight[q].id
        /\ inflight[p].content # "" /\ inflight[p].metadata = EmptyMap
        /\ inflight[q].content = "" /\ inflight[q].metadata # EmptyMap) =>
          LET doc == store[inflight[p].coll][inflight[p].id]
          IN  /\ doc.content = inflight[p].content
              /\ \A k \in DOMAIN inflight[q].metadata :
                    k \in DOMAIN doc.metadata /\ doc.metadata[k] = inflight[q].metadata[k]

\* C27: list_collections answers 200 with one entry for each collection it
\* enumerated, also when one of them is deleted before its count is looked up.
C27_ListingSurvivesDelete ==
    \A p \in Procs :
       (inflight[p].pc = "done" /\ inflight[p].op = "list") =>
          inflight[p].status = 200 /\ DOMAIN inflight[p].listing = inflight[p].enumerated
====
